---- MODULE Spec2Model ----
(***************************************************************************)
(* Model of dev_anon.py: the product-mapping run (main), its two data      *)
(* paths (the pandas resolution of mock_mapping_dataframe and the SQL      *)
(* stages joined/counts/picked of run_mapping_query) and the failures of   *)
(* get_credentials and fetch_company_codes.                                *)
(*                                                                         *)
(* Strings are modelled by positive integers whose numeric order is the    *)
(* lexical order of the strings; Null (None / NaN / SQL NULL) is 0.        *)
(***************************************************************************)
EXTENDS Integers, Sequences, FiniteSets, TLC

VARIABLES useMock, installed, pc, creds, codes, plato, mag, df, written, err,
          queryInvoked, runs, prev

vars == <<useMock, installed, pc, creds, codes, plato, mag, df, written, err,
          queryInvoked, runs, prev>>

Null == 0

\* Bounds of the model: longest order-line frame, longest labeled frame,
\* number of invocations of main that are followed.
MaxPlato == 2
MaxMag == 3
MaxRuns == 2
\* Longest frames when key fields may be Null.
MaxNullRows == 1

\* The values the fields take: one company with two orders of one line, two
\* items, two labels.
Companies == {1}
Orders == {1, 2}
Lines == {1}
Items == {1, 2}
Labels == {1, 2}

NoRun == <<"no previous run">>

SeqsUpTo(S, n) == UNION {[1..k -> S] : k \in 0..n}

\* Rows of plato / plato_keys and of mag, as the data model of the sources
\* gives them: keys present, the label possibly Null.
PlatoRecords ==
    [company_code : Companies, order_number : Orders, order_line : Lines,
     sales_item_id : Items]

MagRecords ==
    [company_code : Companies, order_number : Orders, order_line : Lines,
     mg_product_name : Labels \cup {Null}]

\* No row twice: plato_keys is a SELECT DISTINCT, and every row of the
\* synthetic plato has an order number of its own.
DistinctRows(f) == \A i, j \in DOMAIN f : i # j => f[i] # f[j]

PlatoFrames == {f \in SeqsUpTo(PlatoRecords, MaxPlato) : DistinctRows(f)}
MagFrames == SeqsUpTo(MagRecords, MaxMag)

\* The same rows when any field may be missing.
PlatoRecordsNull ==
    [company_code : Companies \cup {Null}, order_number : Orders \cup {Null},
     order_line : Lines \cup {Null}, sales_item_id : Items \cup {Null}]

MagRecordsNull ==
    [company_code : Companies \cup {Null}, order_number : Orders \cup {Null},
     order_line : Lines \cup {Null}, mg_product_name : Labels \cup {Null}]

PlatoFramesNull == {f \in SeqsUpTo(PlatoRecordsNull, MaxNullRows) : DistinctRows(f)}
MagFramesNull == SeqsUpTo(MagRecordsNull, MaxNullRows)

(***************************************************************************)
(* Orders and sorting                                                      *)
(***************************************************************************)
\* The order of the pairs turned round (ascending=False).
PairLessDescending(a, b) ==
    \/ a.company_code > b.company_code
    \/ a.company_code = b.company_code /\ a.sales_item_id > b.sales_item_id

PairLess(a, b) ==
    \/ a.company_code < b.company_code
    \/ a.company_code = b.company_code /\ a.sales_item_id < b.sales_item_id

\* Groups ordered with the labels of a pair in descending order.
TripleLessLabelDescending(a, b) ==
    \/ PairLess(a, b)
    \/ /\ a.company_code = b.company_code
       /\ a.sales_item_id = b.sales_item_id
       /\ a.mg_product_name > b.mg_product_name

TripleLess(a, b) ==
    \/ PairLess(a, b)
    \/ /\ a.company_code = b.company_code
       /\ a.sales_item_id = b.sales_item_id
       /\ a.mg_product_name < b.mg_product_name

\* The counts of a pair in ascending order (ascending=[True,True,True]).
CntOrderLessAscending(a, b) ==
    \/ PairLess(a, b)
    \/ /\ a.company_code = b.company_code
       /\ a.sales_item_id = b.sales_item_id
       /\ a.cnt < b.cnt

\* sort_values(["company_code","sales_item_id","cnt"], ascending=[True,True,False])
CntOrderLess(a, b) ==
    \/ PairLess(a, b)
    \/ /\ a.company_code = b.company_code
       /\ a.sales_item_id = b.sales_item_id
       /\ a.cnt > b.cnt

\* The orders the code sorts by, by name.
RowLess(by, a, b) ==
    CASE by = "pair" -> PairLess(a, b)
      [] by = "triple" -> TripleLess(a, b)
      [] by = "cnt" -> CntOrderLess(a, b)
      [] by = "code" -> a < b

\* A stable sort: rows that compare equal keep their order in s.
StableSort(s, by) ==
    LET n == Len(s)
        rank(i) == Cardinality({j \in 1..n :
                        \/ RowLess(by, s[j], s[i])
                        \/ ~RowLess(by, s[i], s[j]) /\ j < i})
    IN  [k \in 1..n |-> s[CHOOSE i \in 1..n : rank(i) = k - 1]]

\* The elements of a set of distinct keys in ascending order.
SortedSeq(S, by) ==
    [k \in 1..Cardinality(S) |->
        CHOOSE x \in S : Cardinality({y \in S : RowLess(by, y, x)}) = k - 1]

Pair(r) == [company_code |-> r.company_code, sales_item_id |-> r.sales_item_id]

Triple(r) ==
    [company_code |-> r.company_code, sales_item_id |-> r.sales_item_id,
     mg_product_name |-> r.mg_product_name]

Row(r, label) ==
    [company_code |-> r.company_code, sales_item_id |-> r.sales_item_id,
     mg_product_name |-> label]

(***************************************************************************)
(* The pandas resolution of mock_mapping_dataframe                         *)
(***************************************************************************)
\* merge(on=["company_code","order_number","order_line"]): rows match when
\* the key values are equal; pandas matches a missing key with a missing key.
MergeKeyEq(r, m) ==
    /\ r.company_code = m.company_code
    /\ r.order_number = m.order_number
    /\ r.order_line = m.order_line

\* A merge that keeps one labeled row per key, the first.
MergeRowsFirstHit(r, m) ==
    LET hits == SelectSeq(m, LAMBDA x : r.company_code = x.company_code
                                        /\ r.order_number = x.order_number
                                        /\ r.order_line = x.order_line)
    IN  IF hits = <<>>
        THEN <<Row(r, Null)>>
        ELSE <<Row(r, hits[1].mg_product_name)>>

\* how="left": one row per matching right row, in the right frame's order,
\* and one row with a missing label when nothing matches.
MergeRows(r, m) ==
    LET hits == SelectSeq(m, LAMBDA x : MergeKeyEq(r, x))
    IN  IF hits = <<>>
        THEN <<Row(r, Null)>>
        ELSE [j \in 1..Len(hits) |-> Row(r, hits[j].mg_product_name)]

RECURSIVE Merge(_, _)
Merge(p, m) ==
    IF p = <<>> THEN <<>> ELSE MergeRows(Head(p), m) \o Merge(Tail(p), m)

\* .dropna(subset=["mg_product_name"])
DropNa(rows) == SelectSeq(rows, LAMBDA r : r.mg_product_name # Null)

PandasJoined(p, m) == DropNa(Merge(p, m))

\* groupby([...], as_index=False).size().rename(columns={"size":"cnt"}):
\* groups with a missing key are dropped (dropna=True) and the groups come
\* out sorted by key (sort=True).
GroupSize(rows) ==
    LET kept == SelectSeq(rows, LAMBDA r : /\ r.company_code # Null
                                           /\ r.sales_item_id # Null
                                           /\ r.mg_product_name # Null)
        keys == {Triple(kept[i]) : i \in DOMAIN kept}
        ordered == SortedSeq(keys, "triple")
    IN  [k \in DOMAIN ordered |->
            [company_code |-> ordered[k].company_code,
             sales_item_id |-> ordered[k].sales_item_id,
             mg_product_name |-> ordered[k].mg_product_name,
             cnt |-> Cardinality({i \in DOMAIN kept : Triple(kept[i]) = ordered[k]})]]

PandasCounts(p, m) == GroupSize(PandasJoined(p, m))

\* The sorted counts without the second grouping: a row per label.
GroupFirstEveryRow(rows) == [k \in DOMAIN rows |-> Triple(rows[k])]

\* groupby(["company_code","sales_item_id"], as_index=False).first()[[...]]:
\* the first row of each group, the groups sorted by key.
GroupFirst(rows) ==
    LET keys == {Pair(rows[i]) : i \in DOMAIN rows}
        ordered == SortedSeq(keys, "pair")
    IN  [k \in DOMAIN ordered |->
            Triple(rows[CHOOSE i \in DOMAIN rows :
                            /\ Pair(rows[i]) = ordered[k]
                            /\ \A j \in 1..(i - 1) : Pair(rows[j]) # ordered[k]])]

PandasPicked(p, m) == GroupFirst(StableSort(PandasCounts(p, m), "cnt"))

\* picked.sort_values(["company_code","sales_item_id"]).reset_index(drop=True)
PandasResolve(p, m) == StableSort(PandasPicked(p, m), "pair")

(***************************************************************************)
(* The SQL stages joined, counts, picked of run_mapping_query              *)
(***************************************************************************)
\* USING (company_code, order_number, order_line): NULL equals nothing.
UsingEq(r, m) ==
    /\ r.company_code # Null /\ r.company_code = m.company_code
    /\ r.order_number # Null /\ r.order_number = m.order_number
    /\ r.order_line # Null /\ r.order_line = m.order_line

LeftJoinRows(r, m) ==
    LET hits == SelectSeq(m, LAMBDA x : UsingEq(r, x))
    IN  IF hits = <<>>
        THEN <<Row(r, Null)>>
        ELSE [j \in 1..Len(hits) |-> Row(r, hits[j].mg_product_name)]

RECURSIVE LeftJoin(_, _)
LeftJoin(p, m) ==
    IF p = <<>> THEN <<>> ELSE LeftJoinRows(Head(p), m) \o LeftJoin(Tail(p), m)

\* joined: ... WHERE m.mg_product_name IS NOT NULL
SqlJoined(p, m) == SelectSeq(LeftJoin(p, m), LAMBDA r : r.mg_product_name # Null)

\* counts: COUNT(*) ... GROUP BY 1,2,3 (a NULL key is a group of its own)
SqlCounts(p, m) ==
    LET j == SqlJoined(p, m)
    IN  {[company_code |-> t.company_code, sales_item_id |-> t.sales_item_id,
          mg_product_name |-> t.mg_product_name,
          cnt |-> Cardinality({i \in DOMAIN j : Triple(j[i]) = t})] :
            t \in {Triple(j[i]) : i \in DOMAIN j}}

\* ARRAY_AGG(STRUCT(mg_product_name, cnt) ORDER BY cnt DESC LIMIT 1)[OFFSET(0)]:
\* rows of equal cnt have no defined order, so any label of highest cnt may
\* be the one kept.
SqlTopLabels(counts, k) ==
    {c.mg_product_name : c \in {x \in counts :
        /\ Pair(x) = k
        /\ \A d \in counts : Pair(d) = k => d.cnt <= x.cnt}}

\* picked: the tables the stage can produce.
SqlPicked(p, m) ==
    LET counts == SqlCounts(p, m)
        keys == {Pair(c) : c \in counts}
        picks == {f \in [keys -> Labels] : \A k \in keys : f[k] \in SqlTopLabels(counts, k)}
    IN  {{Row(k, f[k]) : k \in keys} : f \in picks}

\* SELECT ... FROM picked ORDER BY company_code, sales_item_id
SqlResolve(p, m) == {SortedSeq(t, "pair") : t \in SqlPicked(p, m)}

(***************************************************************************)
(* main                                                                    *)
(***************************************************************************)
Init ==
    /\ useMock \in BOOLEAN
    /\ installed \in BOOLEAN
    /\ pc = "start"
    /\ creds = "none"
    /\ codes = <<>>
    /\ plato = <<>>
    /\ mag = <<>>
    /\ df = <<>>
    /\ written = FALSE
    /\ err = "none"
    /\ queryInvoked = FALSE
    /\ runs = 1
    /\ prev = NoRun

CodeSet == {codes[i] : i \in DOMAIN codes}

\* get_credentials() returning the user's credentials.
GetCredentials ==
    /\ pc = "start" /\ ~useMock
    /\ installed
    /\ creds' = "user"
    /\ pc' = "fetch"
    /\ UNCHANGED <<useMock, installed, codes, plato, mag, df, written, err,
                   queryInvoked, runs, prev>>

\* get_credentials() raising: pydata_google_auth is None, or the
\* authentication itself fails.
GetCredentialsRaise ==
    /\ pc = "start" /\ ~useMock
    /\ err' = IF ~installed THEN "AuthLibMissing" ELSE "RemoteError"
    /\ pc' = "failed"
    /\ UNCHANGED <<useMock, installed, creds, codes, plato, mag, df, written,
                   queryInvoked, runs, prev>>

\* fetch_company_codes without the check of an empty code list.
FetchCompanyCodesUnchecked ==
    /\ pc = "fetch"
    /\ installed
    /\ \E S \in SUBSET Companies :
          codes' = SortedSeq(S, "code")
    /\ pc' = "query"
    /\ UNCHANGED <<useMock, installed, creds, plato, mag, df, written, err,
                   queryInvoked, runs, prev>>

\* fetch_company_codes(creds) returning sorted(set(df["CompanyCode"])).
FetchCompanyCodes ==
    /\ pc = "fetch"
    /\ installed
    /\ \E S \in (SUBSET Companies) \ {{}} :
          codes' = SortedSeq(S, "code")
    /\ pc' = "query"
    /\ UNCHANGED <<useMock, installed, creds, plato, mag, df, written, err,
                   queryInvoked, runs, prev>>

\* fetch_company_codes(creds) raising: read_gbq is None, the lookup query
\* fails, or it resolves no company code.
FetchCompanyCodesRaise ==
    /\ pc = "fetch"
    /\ \/ ~installed /\ err' = "GbqLibMissing"
       \/ installed /\ err' \in {"RemoteError", "NoCompanyCodes"}
    /\ pc' = "failed"
    /\ UNCHANGED <<useMock, installed, creds, codes, plato, mag, df, written,
                   queryInvoked, runs, prev>>

\* run_mapping_query(codes, creds): plato_keys holds rows of the resolved
\* companies with an order number; the query returns one of the tables the
\* stages joined, counts, picked can produce.
RunMappingQuery(P, M) ==
    /\ pc = "query"
    /\ \E p \in (IF runs = 1 THEN P ELSE {plato}),
          m \in (IF runs = 1 THEN M ELSE {mag}) :
          /\ \A i \in DOMAIN p : /\ p[i].company_code \in CodeSet
                                 /\ p[i].order_number # Null
          /\ plato' = p
          /\ mag' = m
          /\ df' \in SqlResolve(p, m)
    /\ queryInvoked' = TRUE
    /\ pc' = "export"
    /\ UNCHANGED <<useMock, installed, creds, codes, written, err, runs, prev>>

\* A run that creates the output file before it runs the query.
RunMappingQueryRaiseAfterWrite ==
    /\ pc = "query"
    /\ queryInvoked' = TRUE
    /\ written' = TRUE
    /\ err' = "RemoteError"
    /\ pc' = "failed"
    /\ UNCHANGED <<useMock, installed, creds, codes, plato, mag, df, runs, prev>>

\* run_mapping_query(codes, creds) raising in read_gbq.
RunMappingQueryRaise ==
    /\ pc = "query"
    /\ queryInvoked' = TRUE
    /\ err' = "RemoteError"
    /\ pc' = "failed"
    /\ UNCHANGED <<useMock, installed, creds, codes, plato, mag, df, written,
                   runs, prev>>

\* A resolution that treats an empty mapping as fatal.
MockMappingDataframeRaisesOnEmpty(P, M) ==
    /\ pc = "start" /\ useMock
    /\ \E p \in (IF runs = 1 THEN P ELSE {plato}),
          m \in (IF runs = 1 THEN M ELSE {mag}) :
          /\ plato' = p
          /\ mag' = m
          /\ df' = PandasResolve(p, m)
    /\ pc' = IF df' = <<>> THEN "failed" ELSE "export"
    /\ err' = IF df' = <<>> THEN "RuntimeError" ELSE err
    /\ UNCHANGED <<useMock, installed, creds, codes, written,
                   queryInvoked, runs, prev>>

\* mock_mapping_dataframe(): the frames plato and mag, then the resolution.
MockMappingDataframe(P, M) ==
    /\ pc = "start" /\ useMock
    /\ \E p \in (IF runs = 1 THEN P ELSE {plato}),
          m \in (IF runs = 1 THEN M ELSE {mag}) :
          /\ plato' = p
          /\ mag' = m
          /\ df' = PandasResolve(p, m)
    /\ pc' = "export"
    /\ UNCHANGED <<useMock, installed, creds, codes, written, err,
                   queryInvoked, runs, prev>>

\* df.to_excel(out_path, ...) and the two prints.
ToExcel ==
    /\ pc = "export"
    /\ written' = TRUE
    /\ pc' = "done"
    /\ UNCHANGED <<useMock, installed, creds, codes, plato, mag, df, err,
                   queryInvoked, runs, prev>>

\* The script is run again on the same, unchanged sources.
Rerun ==
    /\ pc = "done"
    /\ runs < MaxRuns
    /\ runs' = runs + 1
    /\ prev' = df
    /\ pc' = "start"
    /\ creds' = "none"
    /\ codes' = <<>>
    /\ df' = <<>>
    /\ written' = FALSE
    /\ queryInvoked' = FALSE
    /\ UNCHANGED <<useMock, installed, plato, mag, err>>

Next ==
    \/ GetCredentials
    \/ GetCredentialsRaise
    \/ FetchCompanyCodes
    \/ FetchCompanyCodesRaise
    \/ RunMappingQuery(PlatoFrames, MagFrames)
    \/ RunMappingQueryRaise
    \/ MockMappingDataframe(PlatoFrames, MagFrames)
    \/ ToExcel

Spec == Init /\ [][Next]_vars

NextRerun == Next \/ Rerun

SpecRerun == Init /\ [][NextRerun]_vars

NextNull ==
    \/ GetCredentials
    \/ GetCredentialsRaise
    \/ FetchCompanyCodes
    \/ FetchCompanyCodesRaise
    \/ RunMappingQuery(PlatoFramesNull, MagFramesNull)
    \/ RunMappingQueryRaise
    \/ MockMappingDataframe(PlatoFramesNull, MagFramesNull)
    \/ ToExcel

SpecNull == Init /\ [][NextNull]_vars

(***************************************************************************)
(* Vocabulary of the properties                                            *)
(***************************************************************************)
\* A mapping has been obtained in this run.
Resolved == pc \in {"export", "done"}

\* The (order-line row, labeled row) pairs that are one occurrence of the
\* triple (cc, item, label): keys exactly equal, label present and equal.
OccurrencePairs(cc, item, label) ==
    LET lines == {i \in DOMAIN plato : /\ plato[i].company_code = cc
                                       /\ plato[i].sales_item_id = item}
        labeled == {j \in DOMAIN mag : /\ mag[j].mg_product_name # Null
                                       /\ mag[j].mg_product_name = label}
    IN  {h \in lines \X labeled :
            /\ plato[h[1]].company_code = mag[h[2]].company_code
            /\ plato[h[1]].order_number = mag[h[2]].order_number
            /\ plato[h[1]].order_line = mag[h[2]].order_line}

Occurrences(cc, item, label) == Cardinality(OccurrencePairs(cc, item, label))

\* The labels of highest count of a pair.
TopLabels(cc, item) ==
    LET n == [l \in Labels |-> Occurrences(cc, item, l)]
    IN  {l \in Labels : n[l] > 0 /\ \A o \in Labels : n[o] <= n[l]}

Joins(cc, item) == \E l \in Labels : Occurrences(cc, item, l) > 0

\* C1: every emitted label has a count at least that of every other label
\* joined to the row's (company_code, sales_item_id) pair, on both paths.
MajorityCorrect ==
    Resolved =>
        \A k \in DOMAIN df :
            LET own == Occurrences(df[k].company_code, df[k].sales_item_id,
                                   df[k].mg_product_name)
            IN  \A l \in Labels :
                    own >= Occurrences(df[k].company_code, df[k].sales_item_id, l)

\* A pair whose winning label was seen twice and whose other label once.
MajorityWitness ==
    /\ Resolved
    /\ \E k \in DOMAIN df : \E l \in Labels :
          /\ Occurrences(df[k].company_code, df[k].sales_item_id, df[k].mg_product_name) = 2
          /\ Occurrences(df[k].company_code, df[k].sales_item_id, l) = 1

\* C2: a pair is in the output exactly when one of its order-line rows
\* joined a labeled row with a label, and no pair is there twice.
KeysComplete ==
    Resolved =>
        /\ \A k \in DOMAIN df : /\ df[k].company_code \in Companies
                                /\ df[k].sales_item_id \in Items
        /\ \A cc \in Companies, item \in Items :
              Joins(cc, item) <=>
                 \E k \in DOMAIN df : /\ df[k].company_code = cc
                                      /\ df[k].sales_item_id = item
        /\ \A i, j \in DOMAIN df : i # j => Pair(df[i]) # Pair(df[j])

\* One pair joined under two labels, another pair of the input never joined.
KeysCompleteWitness ==
    /\ Resolved
    /\ Len(df) = 1
    /\ Cardinality({l \in Labels :
          Occurrences(df[1].company_code, df[1].sales_item_id, l) > 0}) = 2
    /\ \E i \in DOMAIN plato : ~Joins(plato[i].company_code, plato[i].sales_item_id)

\* C8: the output rows are in ascending order of (company_code, sales_item_id).
OutputSorted ==
    Resolved =>
        \A i, j \in DOMAIN df :
            i < j => \/ df[i].company_code < df[j].company_code
                     \/ /\ df[i].company_code = df[j].company_code
                        /\ df[i].sales_item_id <= df[j].sales_item_id

\* Two output rows whose pairs came in descending order in the input.
OutputSortedWitness ==
    /\ Resolved
    /\ Len(df) = 2
    /\ Len(plato) = 2
    /\ PairLess(plato[2], plato[1])

\* The rows of the counts stage of the path taken.
StageCounts ==
    IF useMock
    THEN LET c == PandasCounts(plato, mag) IN {c[k] : k \in DOMAIN c}
    ELSE SqlCounts(plato, mag)

\* C9: the count of a triple is the number of (order-line row, labeled row)
\* pairs with equal keys and that label; rows without a match or with a
\* missing label add nothing, and every labeled row of a key adds one.
CountsAreOccurrences ==
    Resolved =>
        LET c == StageCounts
        IN  /\ \A r \in c :
                  /\ r.company_code \in Companies
                  /\ r.sales_item_id \in Items
                  /\ r.mg_product_name \in Labels
                  /\ r.cnt > 0
            /\ \A cc \in Companies, item \in Items, l \in Labels :
                  LET n == Occurrences(cc, item, l)
                      rows == {r \in c : /\ r.company_code = cc
                                         /\ r.sales_item_id = item
                                         /\ r.mg_product_name = l}
                  IN  IF n = 0
                      THEN rows = {}
                      ELSE /\ Cardinality(rows) = 1
                           /\ \A r \in rows : r.cnt = n

\* One order-line row counted twice through two labeled rows of its key,
\* next to an order-line row whose only labeled row has no label.
CountsWitness ==
    /\ Resolved
    /\ Len(plato) = 2
    /\ \E l \in Labels :
          /\ Occurrences(plato[1].company_code, plato[1].sales_item_id, l) = 2
          /\ \A h \in OccurrencePairs(plato[1].company_code, plato[1].sales_item_id, l) :
                h[1] = 1
    /\ \E j \in DOMAIN mag : /\ MergeKeyEq(plato[2], mag[j])
                             /\ mag[j].mg_product_name = Null
    /\ ~Joins(plato[2].company_code, plato[2].sales_item_id)

\* The labels of highest count that the input shows first: going through
\* the order-line rows in their order (the labeled rows of each in theirs),
\* or going through the labeled rows in their order.
FirstEncounteredTop(cc, item) ==
    LET hits == UNION {OccurrencePairs(cc, item, l) : l \in TopLabels(cc, item)}
        byLine == CHOOSE h \in hits :
                    \A g \in hits : \/ h[1] < g[1]
                                    \/ h[1] = g[1] /\ h[2] <= g[2]
        byLabeled == CHOOSE h \in hits : \A g \in hits : h[2] <= g[2]
    IN  {mag[byLine[2]].mg_product_name, mag[byLabeled[2]].mg_product_name}

LeastTop(cc, item) ==
    CHOOSE l \in TopLabels(cc, item) : \A o \in TopLabels(cc, item) : l <= o

\* C10 as stated: among the labels sharing the highest count the pandas
\* resolution emits the one first encountered in input order.
TieBreakFirstEncountered ==
    (Resolved /\ useMock) =>
        \A k \in DOMAIN df :
            df[k].mg_product_name \in
                FirstEncounteredTop(df[k].company_code, df[k].sales_item_id)

\* C10 as amended: among the labels sharing the highest count the pandas
\* resolution emits the least in lexical order, whatever the input order;
\* the SQL picked stage emits one of them.
TieBreakLexical ==
    Resolved =>
        \A k \in DOMAIN df :
            LET top == TopLabels(df[k].company_code, df[k].sales_item_id)
            IN  /\ df[k].mg_product_name \in top
                /\ useMock => \A o \in top : df[k].mg_product_name <= o

\* A tie on the pandas path where the least label is not encountered first.
TieBreakWitness ==
    /\ Resolved /\ useMock
    /\ \E k \in DOMAIN df :
          /\ Cardinality(TopLabels(df[k].company_code, df[k].sales_item_id)) = 2
          /\ LeastTop(df[k].company_code, df[k].sales_item_id)
                \notin FirstEncounteredTop(df[k].company_code, df[k].sales_item_id)

NoJoin == \A cc \in Companies, item \in Items : ~Joins(cc, item)

\* C7: inputs without a single successful join give an empty mapping and
\* the run goes on to the export; nothing fails because of them.
EmptyIsNotAnError ==
    NoJoin =>
        /\ Resolved => df = <<>>
        /\ (plato # <<>> \/ mag # <<>>) => (Resolved /\ err = "none")
        /\ pc = "export" => ENABLED ToExcel

\* Both inputs hold rows, none joins, and the empty mapping was exported.
EmptyWitness ==
    /\ pc = "done" /\ written
    /\ plato # <<>> /\ mag # <<>>
    /\ NoJoin
    /\ df = <<>>

\* C4: the file is written only by a run that obtained its mapping, and a
\* run that failed has written nothing.
NoOutputBeforeFailure ==
    /\ written => (pc = "done" /\ err = "none")
    /\ pc = "failed" => (~written /\ err # "none")

\* run_mapping_query failed after credentials and codes were obtained.
FailureWitness ==
    /\ pc = "failed" /\ err = "RemoteError"
    /\ queryInvoked
    /\ ~written

\* C5: run_mapping_query is invoked only with credentials and a non-empty
\* code list; a missing library or an empty lookup ends the run without it.
QueryOnlyAfterUpstream ==
    /\ queryInvoked => (~useMock /\ installed /\ creds = "user" /\ codes # <<>>)
    /\ err \in {"AuthLibMissing", "GbqLibMissing", "NoCompanyCodes"} =>
          (pc = "failed" /\ ~queryInvoked)
    /\ (~useMock /\ ~installed) => (~queryInvoked /\ pc \in {"start", "failed"})

\* The lookup resolved no company code.
UpstreamWitness ==
    /\ pc = "failed" /\ err = "NoCompanyCodes"
    /\ creds = "user"
    /\ ~queryInvoked

\* C3: a second run on the same sources gives the mapping of the first.
Deterministic ==
    (runs > 1 /\ Resolved) => df = prev

Complete(r) ==
    /\ r.company_code # Null
    /\ r.order_number # Null
    /\ r.order_line # Null
    /\ r.sales_item_id # Null

\* C6: order-line rows with a missing key field count for nothing: the
\* mapping is the one the complete rows alone give.
NullKeyedRowsUnmatchable ==
    Resolved =>
        LET rows == SelectSeq(plato, Complete)
        IN  IF useMock
            THEN df = PandasResolve(rows, mag)
            ELSE df \in SqlResolve(rows, mag)

====
